---- MODULE Spec2Model ----
(***************************************************************************)
(* Model of the relay controller of one-api (controller package):          *)
(*   Relay      - one attempt of a text/image relay, with the retry done   *)
(*                as a 307 redirect that the client follows;               *)
(*   RelayAudio - one attempt of the audio transcription relay, with the   *)
(*                WAV header duration estimate and the deferred billing.   *)
(* Strings that the code formats and parses (the retry query value) are    *)
(* sequences of one-character strings.                                     *)
(***************************************************************************)
EXTENDS Integers, Sequences, FiniteSets, TLC

\* ------------------------------------------------------------------ bounds
\* largest retry budget a client or the configuration supplies
MaxRetry == 3
\* number of configured channels
NumChannels == 2
NumWorkers == 2

Channels == 1..NumChannels
Workers == 1..NumWorkers

\* ------------------------------------------------------- program constants
StatusOK == 200
StatusTemporaryRedirect == 307
StatusBadRequest == 400
StatusTooManyRequests == 429
StatusInternalServerError == 500
\* binary.Size of common.WAVHeader: 4+4+4+4+4+2+2+4+4+2+2+4+4
WAVHeaderSize == 44
\* assumed byte rate of a payload that is not a WAV file
DefaultByteRate == 16000

\* --------------------------------------------------------------- variables
VARIABLES
  chanStatus,   \* channel store: channel id -> "enabled" | "disabled"
  rPhase,       \* logical Relay request: idle | attempt | redirected | success | terminal
  path,         \* c.Request.URL.Path of the request in flight
  query,        \* the `retry` query parameter of the request in flight
  RetryTimes,   \* common.RetryTimes, the process-wide default budget
  initQuery,    \* the `retry` query parameter of the first request
  budgets,      \* retryTimes computed by each failed attempt so far
  attempts,     \* Relay invocations of the logical request
  redirects,    \* retry redirects the client has received
  envelopes,    \* error envelopes the client has received
  channel_id,   \* c.GetInt("channel_id") of the last attempt
  chanBefore,   \* the channel store as the last attempt found it
  relayMode,    \* the relay mode of the last attempt
  helper,       \* the helper the last attempt called
  helperErr,    \* what the helper returned in the last attempt
  lastErr,      \* err as the last attempt left it
  rResp,        \* response of the last attempt
  rLog,         \* effects of the last attempt, in program order
  QuotaPerUnit, \* common.QuotaPerUnit, the process-wide billing unit
  aPhase,       \* audio attempt: idle | request | done
  aIn,          \* the upload: form validity, file size, first 44 bytes
  aExit,        \* the return statement through which RelayAudio left
  aStatus,      \* resp.StatusCode, 0 when no upstream response was obtained
  aHeaders,     \* the headers of the upstream response
  aBody,        \* the body of the upstream response
  aDuration,    \* the duration estimate of the audio attempt
  aResp,        \* what the client has been sent by the audio attempt
  aLog,         \* effects of the audio attempt, in program order
  wPc,          \* concurrent audio worker -> idle | billing | done
  wQuota,       \* the quota each worker computed
  wCalls,       \* the accounting calls each worker has yet to issue
  ledger        \* totals kept by the token, user, channel and log stores

relayVars == <<rPhase, path, query, RetryTimes, initQuery, budgets, attempts,
               redirects, envelopes, channel_id, chanBefore, relayMode, helper,
               helperErr, lastErr, rResp, rLog>>
audioVars == <<QuotaPerUnit, aPhase, aIn, aExit, aStatus, aHeaders,
              aBody, aDuration, aResp, aLog>>
ledgerVars == <<wPc, wQuota, wCalls, ledger>>
vars == <<chanStatus, relayVars, audioVars, ledgerVars>>

\* ------------------------------------------------- strconv / fmt of the retry value
Digits == <<"0", "1", "2", "3", "4", "5", "6", "7", "8", "9">>
DigitChars == {Digits[i] : i \in 1..10}

DigitVal(ch) == (CHOOSE i \in 1..10 : Digits[i] = ch) - 1

RECURSIVE DecVal(_)
DecVal(s) == IF s = <<>> THEN 0
             ELSE 10 * DecVal(SubSeq(s, 1, Len(s) - 1)) + DigitVal(s[Len(s)])

\* strconv.Atoi with its error dropped: 0 for anything that is not [+-]?[0-9]+
\* (a value outside the int range is clamped by Atoi; the values here are small)
Atoi(s) ==
  IF s = <<>> THEN 0
  ELSE LET signed == Head(s) \in {"+", "-"}
           body   == IF signed THEN Tail(s) ELSE s
       IN  IF body = <<>> \/ \E i \in 1..Len(body) : body[i] \notin DigitChars
           THEN 0
           ELSE IF Head(s) = "-" THEN 0 - DecVal(body) ELSE DecVal(body)

RECURSIVE DecStr(_)
DecStr(n) == IF n < 10 THEN <<Digits[n + 1]>>
             ELSE DecStr(n \div 10) \o <<Digits[(n % 10) + 1]>>

\* fmt.Sprintf("%d", n)
FormatInt(n) == IF n < 0 THEN <<"-">> \o DecStr(0 - n) ELSE DecStr(n)

\* the `retry` parameter of a request: absent, or present with a value
AbsentQuery == [present |-> FALSE, val |-> <<>>]
PresentQuery(s) == [present |-> TRUE, val |-> s]

\* c.Query("retry"): the value, "" when the key is missing
Query(q) == IF q.present THEN q.val ELSE <<>>

\* ------------------------------------------------------------------ errors
NoErr == [Message |-> "", Type |-> "", Param |-> "", Code |-> "", StatusCode |-> 0]

Errors ==
  { [Message |-> "rate limited", Type |-> "requests", Param |-> "",
     Code |-> "rate_limit_exceeded", StatusCode |-> 429],
    [Message |-> "quota exceeded", Type |-> "insufficient_quota", Param |-> "",
     Code |-> "insufficient_quota", StatusCode |-> 429],
    [Message |-> "bad key", Type |-> "invalid_request_error", Param |-> "",
     Code |-> "invalid_api_key", StatusCode |-> 401],
    [Message |-> "do_request_failed", Type |-> "one_api_error", Param |-> "",
     Code |-> "do_request_failed", StatusCode |-> 500] }

\* the localized "load saturated" message of line 191 (ASCII stand-in)
SaturatedMessage == "group load saturated, retry later or upgrade the account"

\* the disable policy: authentication failures and quota-exhausted indicators
shouldDisableChannel(err) ==
  err.Type = "insufficient_quota" \/ err.Code = "invalid_api_key"

\* disableChannel: mark the channel disabled in the channel store
disableChannel(store, id) == [store EXCEPT ![id] = "disabled"]

\* ------------------------------------------------------------ effect records
Ev(op, n, s) == [op |-> op, n |-> n, s |-> s]

NoResp == [kind |-> "none", status |-> 0, retry |-> <<>>, error |-> NoErr]

\* ------------------------------------------------------- Relay, lines 181-205
\* the budget with the default of line 185 forgotten
RetryBudgetNoDefault(q, dflt) == Atoi(Query(q))

\* lines 182-186: the budget of this attempt
RetryBudget(q, dflt) ==
  LET retryTimesStr == Query(q)
  IN  IF retryTimesStr = <<>> THEN dflt ELSE Atoi(retryTimesStr)

\* the retry branch taken at budget 0 as well
ShouldRetryAtZero(retryTimes) == retryTimes >= 0

\* line 187: retry or terminal
ShouldRetry(retryTimes) == retryTimes > 0

\* the budget decremented twice
CarriedBudgetTwo(retryTimes) == retryTimes - 2

\* line 188: the budget written into the Location of the redirect
CarriedBudget(retryTimes) == retryTimes - 1

\* the envelope with the message replaced for every error
EnvelopeErrorAlwaysSaturated(err) == [err EXCEPT !.Message = SaturatedMessage]

\* lines 190-192: the error as written into the envelope
EnvelopeError(err) ==
  IF err.StatusCode = StatusTooManyRequests
  THEN [err EXCEPT !.Message = SaturatedMessage]
  ELSE err

\* the disable call made without consulting the policy
DisableAlways(failed, err) == failed

\* line 200: whether this attempt calls disableChannel
DisableInvoked(failed, err) == failed /\ shouldDisableChannel(err)

\* ------------------------------------------------- Relay, lines 157-180
\* lines 22-30: the relay modes
RelayModeUnknown == 0
RelayModeChatCompletions == 1
RelayModeCompletions == 2
RelayModeEmbeddings == 3
RelayModeModerations == 4
RelayModeImagesGenerations == 5
RelayModeEdits == 6

\* a path is the sequence of its characters
\* "/v1/chat/completions"
PathChatCompletions ==
  <<"/", "v", "1", "/", "c", "h", "a", "t", "/", "c", "o", "m", "p", "l",
    "e", "t", "i", "o", "n", "s">>

\* "/v1/completions"
PathCompletions ==
  <<"/", "v", "1", "/", "c", "o", "m", "p", "l", "e", "t", "i", "o", "n",
    "s">>

\* "/v1/embeddings"
PathEmbeddings ==
  <<"/", "v", "1", "/", "e", "m", "b", "e", "d", "d", "i", "n", "g", "s">>

\* "/v1/moderations"
PathModerations ==
  <<"/", "v", "1", "/", "m", "o", "d", "e", "r", "a", "t", "i", "o", "n",
    "s">>

\* "/v1/images/generations"
PathImagesGenerations ==
  <<"/", "v", "1", "/", "i", "m", "a", "g", "e", "s", "/", "g", "e", "n",
    "e", "r", "a", "t", "i", "o", "n", "s">>

\* "/v1/edits"
PathEdits ==
  <<"/", "v", "1", "/", "e", "d", "i", "t", "s">>

\* "embeddings"
SuffixEmbeddings ==
  <<"e", "m", "b", "e", "d", "d", "i", "n", "g", "s">>

\* strings.HasPrefix, strings.HasSuffix
HasPrefix(s, prefix) ==
  Len(prefix) <= Len(s) /\ SubSeq(s, 1, Len(prefix)) = prefix

HasSuffix(s, suffix) ==
  Len(suffix) <= Len(s) /\ SubSeq(s, Len(s) - Len(suffix) + 1, Len(s)) = suffix

\* the classification with the suffix rule tried last
ClassifySuffixLast(p) ==
  IF HasPrefix(p, PathChatCompletions) THEN RelayModeChatCompletions
  ELSE IF HasPrefix(p, PathCompletions) THEN RelayModeCompletions
  ELSE IF HasPrefix(p, PathEmbeddings) THEN RelayModeEmbeddings
  ELSE IF HasPrefix(p, PathModerations) THEN RelayModeModerations
  ELSE IF HasPrefix(p, PathImagesGenerations) THEN RelayModeImagesGenerations
  ELSE IF HasPrefix(p, PathEdits) THEN RelayModeEdits
  ELSE IF HasSuffix(p, SuffixEmbeddings) THEN RelayModeEmbeddings
  ELSE RelayModeUnknown

\* lines 158-173: the relay mode of a request path
ClassifyPath(p) ==
  IF HasPrefix(p, PathChatCompletions) THEN RelayModeChatCompletions
  ELSE IF HasPrefix(p, PathCompletions) THEN RelayModeCompletions
  ELSE IF HasPrefix(p, PathEmbeddings) THEN RelayModeEmbeddings
  ELSE IF HasSuffix(p, SuffixEmbeddings) THEN RelayModeEmbeddings
  ELSE IF HasPrefix(p, PathModerations) THEN RelayModeModerations
  ELSE IF HasPrefix(p, PathImagesGenerations) THEN RelayModeImagesGenerations
  ELSE IF HasPrefix(p, PathEdits) THEN RelayModeEdits
  ELSE RelayModeUnknown

\* lines 175-180: the helper that serves a relay mode
Dispatch(mode) ==
  IF mode = RelayModeImagesGenerations THEN "relayImageHelper" ELSE "relayTextHelper"

\* the diagnostic and the policy only on the attempt that gives up
DiagnosticOnlyTerminal(failed, retry) == failed /\ ~retry

\* lines 197-204: the diagnostic and the disable policy follow the
\* if/else of the answer, inside err != nil
DiagnosticRuns(failed, retry) == failed

\* ------------------------------------------------ RelayAudio, lines 208-429
\* common.WAVHeader, the fields RelayAudio reads
ZeroHeader == [RIFF |-> "", WAVE |-> "", DataSize |-> 0, ByteRate |-> 0]

NoUpload == [bindOk |-> FALSE, fileSize |-> 0, header |-> ZeroHeader]

\* naturals of any size, as base-4096 digits, least significant first and
\* without a leading zero digit
LimbBits == 12
Limb == 2 ^ LimbBits

RECURSIVE Norm(_)
Norm(s) == IF s # <<>> /\ s[Len(s)] = 0 THEN Norm(SubSeq(s, 1, Len(s) - 1)) ELSE s

RECURSIVE NatOf(_)
NatOf(n) == IF n = 0 THEN <<>> ELSE <<n % Limb>> \o NatOf(n \div Limb)

\* the value of a natural that fits an int
RECURSIVE IntOf(_)
IntOf(s) == IF s = <<>> THEN 0 ELSE s[1] + Limb * IntOf(Tail(s))

RECURSIVE Add(_, _, _)
Add(s, t, carry) ==
  IF s = <<>> /\ t = <<>> THEN NatOf(carry)
  ELSE LET a == IF s = <<>> THEN 0 ELSE s[1]
           b == IF t = <<>> THEN 0 ELSE t[1]
           sum == a + b + carry
       IN  <<sum % Limb>> \o Add(IF s = <<>> THEN s ELSE Tail(s),
                                 IF t = <<>> THEN t ELSE Tail(t), sum \div Limb)

\* s * k + carry for k < 2^19
RECURSIVE MulSmall(_, _, _)
MulSmall(s, k, carry) ==
  IF s = <<>> THEN NatOf(carry)
  ELSE LET t == s[1] * k + carry
       IN  <<t % Limb>> \o MulSmall(Tail(s), k, t \div Limb)

RECURSIVE Mul(_, _)
Mul(s, t) ==
  IF t = <<>> THEN <<>>
  ELSE Norm(Add(MulSmall(s, t[1], 0), <<0>> \o Mul(s, Tail(t)), 0))

\* quotient digits and remainder of s by k, 0 < k < 2^19
RECURSIVE DivSmall(_, _)
DivSmall(s, k) ==
  IF s = <<>> THEN [q |-> <<>>, r |-> 0]
  ELSE LET hi == DivSmall(Tail(s), k)
           cur == hi.r * Limb + s[1]
       IN  [q |-> <<cur \div k>> \o hi.q, r |-> cur % k]

RECURSIVE Less(_, _)
Less(s, t) ==
  IF Len(s) # Len(t) THEN Len(s) < Len(t)
  ELSE IF s = <<>> THEN FALSE
  ELSE LET n == Len(s)
       IN  IF s[n] # t[n] THEN s[n] < t[n]
           ELSE Less(SubSeq(s, 1, n - 1), SubSeq(t, 1, n - 1))

RECURSIVE BitLenSmall(_)
BitLenSmall(n) == IF n = 0 THEN 0 ELSE 1 + BitLenSmall(n \div 2)

BitLen(s) == IF s = <<>> THEN 0
             ELSE LimbBits * (Len(s) - 1) + BitLenSmall(s[Len(s)])

\* s * 2^n
Shl(s, n) ==
  IF s = <<>> THEN <<>>
  ELSE [i \in 1..(n \div LimbBits) |-> 0] \o MulSmall(s, 2 ^ (n % LimbBits), 0)

\* s \div 2^n
Shr(s, n) ==
  LET d == n \div LimbBits
  IN  IF d >= Len(s) THEN <<>>
      ELSE Norm(DivSmall(SubSeq(s, d + 1, Len(s)), 2 ^ (n % LimbBits)).q)

\* bit i of s, bit 0 the lowest
Bit(s, i) ==
  LET d == i \div LimbBits
  IN  IF d >= Len(s) THEN 0 ELSE (s[d + 1] \div 2 ^ (i % LimbBits)) % 2

\* a float64 that is not negative: finite (m * 2^e with m odd or 0, m below
\* 2^53, exponent range not modelled), +Inf or NaN
SignificandBits == 53

NoDuration == [kind |-> "none", m |-> <<>>, e |-> 0]
PosInf == [kind |-> "inf", m |-> <<>>, e |-> 0]
NaN == [kind |-> "nan", m |-> <<>>, e |-> 0]

RECURSIVE Fin(_, _)
Fin(m, e) ==
  IF m = <<>> THEN [kind |-> "fin", m |-> <<>>, e |-> 0]
  ELSE IF m[1] = 0 THEN Fin(Tail(m), e + LimbBits)
  ELSE IF m[1] % 2 = 0 THEN Fin(Norm(DivSmall(m, 2).q), e + 1)
  ELSE [kind |-> "fin", m |-> m, e |-> e]

\* the float64 nearest to (m + f) * 2^e, ties to even; 0 <= f < 1, and
\* f > 0 (sticky) only for m of more than 53 bits
Round(m, e, sticky) ==
  LET drop == BitLen(m) - SignificandBits
  IN  IF drop <= 0 THEN Fin(m, e)
      ELSE LET q == Shr(m, drop)
               half == Bit(m, drop - 1) = 1
               rest == sticky \/ m # Shl(Shr(m, drop - 1), drop - 1)
               up == half /\ (rest \/ q[1] % 2 = 1)
           IN  Fin(IF up THEN Add(q, <<1>>, 0) ELSE q, e + drop)

\* float64(n) of an integer 0 <= n < 2^31
Float64(n) == Fin(NatOf(n), 0)

\* x / y, for a finite y of significand below 2^19
FloatQuo(x, y) ==
  IF x.kind = "nan" \/ y.kind = "nan" THEN NaN
  ELSE IF y.kind = "inf" THEN (IF x.kind = "inf" THEN NaN ELSE Fin(<<>>, 0))
  ELSE IF x.kind = "inf" THEN PosInf
  ELSE IF y.m = <<>> THEN (IF x.m = <<>> THEN NaN ELSE PosInf)
  ELSE LET shift == 2 * SignificandBits
           d == DivSmall(Shl(x.m, shift), IntOf(y.m))
       IN  Round(Norm(d.q), x.e - y.e - shift, d.r # 0)

\* float64(a) / float64(b) of two non-negative integers
FloatDiv(a, b) == FloatQuo(Float64(a), Float64(b))

\* x * y of two non-negative floats
FloatMul(x, y) ==
  IF x.kind = "nan" \/ y.kind = "nan" THEN NaN
  ELSE IF x.kind = "inf" \/ y.kind = "inf"
       THEN (IF (x.kind = "fin" /\ x.m = <<>>) \/ (y.kind = "fin" /\ y.m = <<>>)
             THEN NaN ELSE PosInf)
       ELSE Round(Mul(x.m, y.m), x.e + y.e, FALSE)

\* int(x) of a finite x that an int holds: the fraction is dropped
Trunc(x) == IF x.e >= 0 THEN IntOf(Shl(x.m, x.e)) ELSE IntOf(Shr(x.m, 0 - x.e))

\* the estimate with the fallback taken only when both magic fields are wrong
EstimateBothWrong(header, fileSize) ==
  IF header.RIFF # "RIFF" /\ header.WAVE # "WAVE"
  THEN FloatDiv(fileSize, DefaultByteRate)
  ELSE FloatDiv(header.DataSize, header.ByteRate)

\* lines 252-259: the duration estimate
EstimateDuration(header, fileSize) ==
  IF header.RIFF # "RIFF" \/ header.WAVE # "WAVE"
  THEN FloatDiv(fileSize, DefaultByteRate)
  ELSE FloatDiv(header.DataSize, header.ByteRate)

\* line 238: binary.Read fills the header or fails
ReadFails(fileSize, ioOk) == fileSize < WAVHeaderSize \/ ~ioOk

\* lines 337-341: s = QuotaPerUnit * 0.006 / 60
QuotaPerSecond(qpu) ==
  LET m == FloatMul(Float64(qpu), FloatDiv(6, 1000))
  IN  FloatQuo(m, Float64(60))

\* what int(x) yields for a float64 that no int holds (Inf, NaN): the Go
\* specification leaves it to the implementation (the smallest int on
\* amd64 and 386, the largest int or 0 on arm64); 32-bit int shown
ImplDependentInts == {0 - 2147483647 - 1, 0, 2147483647}

\* line 343: quota := int(duration * s)
Quota(duration, qpu, impl) ==
  LET x == FloatMul(duration, QuotaPerSecond(qpu))
  IN  IF x.kind = "fin" THEN Trunc(x) ELSE impl

\* the billing without the status test
AccountingAnyStatus(status) == TRUE

\* line 335: the deferred function bills only this status
AccountingRuns(status) == status = StatusOK

\* the billing placed at the end of the function instead of deferred
BillingAtEnd(exit) == exit = "ok"

\* line 334: the returns that come after the deferred billing is registered
AfterDeferExits == {"close_request_body", "close_inbound_body", "copy",
                    "close_response_body", "ok"}
DeferRegistered(exit) == exit \in AfterDeferExits

\* the accounting calls of lines 351-365
AccountingOps == {"PostConsumeTokenQuota", "CacheUpdateUserQuota", "RecordConsumeLog",
                  "UpdateUserUsedQuotaAndRequestCount", "UpdateChannelUsedQuota"}

\* a call of the accounting, marked when it fails
Call(op, n, fails) == Ev(op, n, IF op \in fails THEN "failed" ELSE "")

\* the accounting with the channel's used quota left out
AccountingNoChannel(quota, fails) ==
  <<Ev("PostConsumeTokenQuota", quota, ""), Ev("CacheUpdateUserQuota", 0, "")>>
    \o (IF quota # 0
        THEN <<Ev("RecordConsumeLog", quota, ""),
               Ev("UpdateUserUsedQuotaAndRequestCount", quota, "")>>
        ELSE <<>>)

\* the accounting with the quota # 0 test of line 359 left out
AccountingLogAlways(quota, fails) ==
  <<Call("PostConsumeTokenQuota", quota, fails),
    Call("CacheUpdateUserQuota", 0, fails),
    Call("RecordConsumeLog", quota, fails),
    Call("UpdateUserUsedQuotaAndRequestCount", quota, fails),
    Call("UpdateChannelUsedQuota", quota, fails)>>

\* the accounting given up at the first failed debit
AccountingAbortOnError(quota, fails) ==
  IF "PostConsumeTokenQuota" \in fails
  THEN <<Call("PostConsumeTokenQuota", quota, fails),
         Ev("SysError", 0, "error consuming token remain quota")>>
  ELSE AccountingLogAlways(quota, fails)

\* lines 344-366: the accounting calls, in program order; fails are the
\* calls that fail (only the first two report an error to the caller)
Accounting(quota, fails) ==
  <<Call("PostConsumeTokenQuota", quota, fails)>>
    \o (IF "PostConsumeTokenQuota" \in fails
        THEN <<Ev("SysError", 0, "error consuming token remain quota")>>
        ELSE <<>>)
    \o <<Call("CacheUpdateUserQuota", 0, fails)>>
    \o (IF "CacheUpdateUserQuota" \in fails
        THEN <<Ev("SysError", 0, "error update user quota cache")>>
        ELSE <<>>)
    \o (IF quota # 0
        THEN <<Call("RecordConsumeLog", quota, fails),
               Call("UpdateUserUsedQuotaAndRequestCount", quota, fails),
               Call("UpdateChannelUsedQuota", quota, fails)>>
        ELSE <<>>)

\* the response writer of the request context: the status is sent with the
\* first body bytes and cannot change afterwards
NoAudioResp == [status |-> 0, headers |-> {}, written |-> FALSE, bytes |-> <<>>,
                envelopes |-> <<>>]

\* an upstream response: status, headers (key and its values), body
NoUpstream == [status |-> 0, headers |-> {}, body |-> <<>>]

\* lines 397-399: c.Writer.Header().Set(k, v[0]) for every upstream header
CopyHeaders(r, hdrs) ==
  [r EXCEPT !.headers = {[key |-> h.key, val |-> h.vals[1]] : h \in hdrs}]

\* c.Writer.WriteHeader(code)
WriteHeader(r, code) ==
  IF code > 0 /\ r.status # code /\ ~r.written THEN [r EXCEPT !.status = code] ELSE r

\* what io.Copy writes to c.Writer
WriteBytes(r, bs) ==
  IF bs = <<>> THEN r
  ELSE [r EXCEPT !.written = TRUE, !.bytes = @ \o bs]

\* c.JSON(code, gin.H{"error": OpenAIError{Message: msg, ...}})
JSON(r, code, msg) ==
  [WriteHeader(r, code) EXCEPT
     !.headers = IF r.written \/ \E h \in r.headers : h.key = "Content-Type"
                 THEN @
                 ELSE @ \cup {[key |-> "Content-Type",
                               val |-> "application/json; charset=utf-8"]},
     !.written = TRUE,
     !.envelopes = Append(@, [status |-> code, Message |-> msg,
                              afterBytes |-> r.written])]

\* ------------------------------------------------------------ requests
\* "/v1/engines/e/embeddings"
PathEngineEmbeddings ==
  <<"/", "v", "1", "/", "e", "n", "g", "i", "n", "e", "s", "/", "e", "/",
    "e", "m", "b", "e", "d", "d", "i", "n", "g", "s">>

PathImagesEmbeddings == PathImagesGenerations \o <<"/">> \o SuffixEmbeddings

PathChatEmbeddings == PathChatCompletions \o <<"/">> \o SuffixEmbeddings

\* "/v1/models"
PathModels ==
  <<"/", "v", "1", "/", "m", "o", "d", "e", "l", "s">>

Paths == {PathChatCompletions, PathImagesGenerations}

\* the paths of the routing runs: one for each rule, one for no rule, and
\* two that match more than one rule
RoutePaths == {PathChatCompletions, PathCompletions, PathEmbeddings,
               PathEngineEmbeddings, PathModerations, PathImagesGenerations,
               PathEdits, PathImagesEmbeddings, PathChatEmbeddings, PathModels}

RouteQueries == {AbsentQuery, PresentQuery(FormatInt(1))}

RouteRetryValues == {0, 1}

QueryNumbers == (0 - 1)..MaxRetry \cup {10}
QueryStrings == {FormatInt(n) : n \in QueryNumbers}
                  \cup {<<>>, <<"a">>, <<"+", "1">>, <<"2", "x">>}
QueryInputs == {AbsentQuery} \cup {PresentQuery(s) : s \in QueryStrings}

DefaultRetryValues == 0..MaxRetry

AudioIdle ==
  /\ QuotaPerUnit = 0
  /\ aPhase = "idle"
  /\ aIn = NoUpload
  /\ aExit = ""
  /\ aStatus = 0
  /\ aHeaders = {}
  /\ aBody = <<>>
  /\ aDuration = NoDuration
  /\ aResp = NoAudioResp
  /\ aLog = <<>>

RelayIdle ==
  /\ rPhase = "idle"
  /\ path = <<>>
  /\ query = AbsentQuery
  /\ RetryTimes = 0
  /\ initQuery = AbsentQuery
  /\ budgets = <<>>
  /\ attempts = 0
  /\ redirects = 0
  /\ envelopes = 0
  /\ channel_id = 0
  /\ chanBefore = [ch \in Channels |-> "enabled"]
  /\ relayMode = RelayModeUnknown
  /\ helper = ""
  /\ helperErr = NoErr
  /\ lastErr = NoErr
  /\ rResp = NoResp
  /\ rLog = <<>>

\* the stores before any accounting call
NoLedger == [tokenDebit |-> 0, cacheRefreshes |-> 0, logged |-> 0,
             userUsed |-> 0, requestCount |-> 0, chanUsed |-> 0]

LedgerIdle ==
  /\ wPc = [w \in Workers |-> "idle"]
  /\ wQuota = [w \in Workers |-> 0]
  /\ wCalls = [w \in Workers |-> <<>>]
  /\ ledger = NoLedger

Init ==
  /\ chanStatus = [ch \in Channels |-> "enabled"]
  /\ RelayIdle
  /\ AudioIdle
  /\ LedgerIdle

\* no request is being served
Quiescent == rPhase \in {"idle", "success", "terminal"}

\* a client sends the first request of a logical request to a Relay route
Request(paths, queries, defaults) ==
  /\ Quiescent
  /\ \E p \in paths, q \in queries, d \in defaults :
       /\ path' = p
       /\ query' = q
       /\ initQuery' = q
       /\ RetryTimes' = d
  /\ rPhase' = "attempt"
  /\ budgets' = <<>>
  /\ attempts' = 0
  /\ redirects' = 0
  /\ envelopes' = 0
  /\ channel_id' = 0
  /\ chanBefore' = chanStatus
  /\ relayMode' = RelayModeUnknown
  /\ helper' = ""
  /\ helperErr' = NoErr
  /\ lastErr' = NoErr
  /\ rResp' = NoResp
  /\ rLog' = <<>>
  /\ UNCHANGED <<chanStatus, audioVars, ledgerVars>>

ClientRequest == Request(Paths, QueryInputs, DefaultRetryValues)

\* a client of the routing runs sends a request
ClientRouteRequest == Request(RoutePaths, RouteQueries, RouteRetryValues)

\* Relay, lines 157-206: one attempt.  The helper (relayTextHelper or
\* relayImageHelper) returns nil or an error; the channel of the request
\* context was chosen before the handler runs.
Relay ==
  /\ rPhase = "attempt"
  /\ \E ch \in Channels, failed \in BOOLEAN, e \in Errors :
       LET retryTimes == RetryBudget(query, RetryTimes)
           retry      == ShouldRetry(retryTimes)
           err        == IF retry THEN e ELSE EnvelopeError(e)
           answer     == IF retry
                         THEN <<Ev("Redirect", CarriedBudget(retryTimes), "")>>
                         ELSE <<Ev("JSON", err.StatusCode, err.Message)>>
           diagnose   == DiagnosticRuns(failed, retry)
           disable    == diagnose /\ DisableInvoked(failed, err)
       IN  /\ relayMode' = ClassifyPath(path)
           /\ helper' = Dispatch(ClassifyPath(path))
           /\ helperErr' = IF failed THEN e ELSE NoErr
           /\ channel_id' = ch
           /\ chanBefore' = chanStatus
           /\ attempts' = attempts + 1
           /\ IF ~failed
              THEN /\ rPhase' = "success"
                   /\ lastErr' = NoErr
                   /\ rResp' = [NoResp EXCEPT !.kind = "ok", !.status = StatusOK]
                   /\ rLog' = <<>>
                   /\ UNCHANGED <<budgets, redirects, envelopes, chanStatus>>
              ELSE /\ lastErr' = err
                   /\ budgets' = Append(budgets, retryTimes)
                   /\ rPhase' = IF retry THEN "redirected" ELSE "terminal"
                   /\ redirects' = IF retry THEN redirects + 1 ELSE redirects
                   /\ envelopes' = IF retry THEN envelopes ELSE envelopes + 1
                   /\ rResp' = IF retry
                               THEN [NoResp EXCEPT
                                       !.kind = "redirect",
                                       !.status = StatusTemporaryRedirect,
                                       !.retry = FormatInt(CarriedBudget(retryTimes))]
                               ELSE [NoResp EXCEPT
                                       !.kind = "json",
                                       !.status = err.StatusCode,
                                       !.error = err]
                   /\ rLog' = answer
                                \o (IF diagnose
                                    THEN <<Ev("SysError", ch, err.Message)>>
                                    ELSE <<>>)
                                \o (IF disable
                                    THEN <<Ev("disableChannel", ch, err.Message)>>
                                    ELSE <<>>)
                   /\ chanStatus' = IF disable
                                    THEN disableChannel(chanStatus, ch)
                                    ELSE chanStatus
  /\ UNCHANGED <<path, query, RetryTimes, initQuery, audioVars, ledgerVars>>

\* the client follows the 307: the same path with the query of the Location
ClientFollowRedirect ==
  /\ rPhase = "redirected"
  /\ query' = PresentQuery(rResp.retry)
  /\ rPhase' = "attempt"
  /\ UNCHANGED <<chanStatus, path, RetryTimes, initQuery, budgets, attempts,
                 redirects, envelopes, channel_id, chanBefore, relayMode, helper,
                 helperErr, lastErr, rResp, rLog, audioVars, ledgerVars>>

Next ==
  \/ ClientRequest
  \/ Relay
  \/ ClientFollowRedirect

\* the Relay routes
Spec == Init /\ [][Next]_vars

\* the Relay routes, over every kind of path
RouteNext ==
  \/ ClientRouteRequest
  \/ Relay
  \/ ClientFollowRedirect

RouteSpec == Init /\ [][RouteNext]_vars

\* the server answers every request and the client follows every redirect
FairSpec == Spec /\ WF_vars(Relay) /\ WF_vars(ClientFollowRedirect)

\* ------------------------------------------------------- the audio route
WAVHeaders == [RIFF : {"RIFF", "RIFX"}, WAVE : {"WAVE", "WEBP"},
               DataSize : {0, 160000, 1440000}, ByteRate : {0, 16000, 48000}]

Uploads ==
  {NoUpload}
    \cup {[bindOk |-> TRUE, fileSize |-> n, header |-> ZeroHeader] : n \in {0, 20}}
    \cup {[bindOk |-> TRUE, fileSize |-> n, header |-> h] :
            n \in {WAVHeaderSize, 32000}, h \in WAVHeaders}

QuotaPerUnitValues == {7000, 500000}

UpstreamStatuses == {200, 201, 401}

Bodies == {<<>>, <<7, 8>>}

UpstreamHeaders ==
  { {[key |-> "Set-Cookie", vals |-> <<"a=1", "b=2">>]},
    {[key |-> "Content-Type", vals |-> <<"text/plain">>],
     [key |-> "X-Request-Id", vals |-> <<"r1">>]} }

\* a client uploads a file to the audio transcription route
ClientAudioRequest ==
  /\ aPhase \in {"idle", "done"}
  /\ \E u \in Uploads, q \in QuotaPerUnitValues :
       /\ aIn' = u
       /\ QuotaPerUnit' = q
  /\ aPhase' = "request"
  /\ aExit' = ""
  /\ aStatus' = 0
  /\ aHeaders' = {}
  /\ aBody' = <<>>
  /\ aDuration' = NoDuration
  /\ aResp' = NoAudioResp
  /\ aLog' = <<>>
  /\ UNCHANGED <<chanStatus, relayVars, ledgerVars>>

\* the accounting calls that fail in an attempt: none, any one, or all
FailureSets == {{}} \cup {{op} : op \in AccountingOps} \cup {AccountingOps}

\* the outcomes of int(duration * s)
IntChoices(d, qpu) ==
  IF FloatMul(d, QuotaPerSecond(qpu)).kind = "fin" THEN {0} ELSE ImplDependentInts

\* a return statement of RelayAudio and the deferred calls it runs: the
\* billing registered at line 334, then file.Close registered at line 236
AudioReturn(exit, up, d, resp, log) ==
  /\ aPhase' = "done"
  /\ aExit' = exit
  /\ aStatus' = up.status
  /\ aHeaders' = up.headers
  /\ aBody' = up.body
  /\ aDuration' = d
  /\ aResp' = resp
  /\ LET fileClose == IF exit \in {"bind", "open"} THEN <<>>
                      ELSE <<Ev("file.Close", 0, "")>>
     IN  IF DeferRegistered(exit) /\ AccountingRuns(up.status)
         THEN \E fails \in FailureSets, impl \in IntChoices(d, QuotaPerUnit) :
                aLog' = log \o Accounting(Quota(d, QuotaPerUnit, impl), fails)
                            \o fileClose
         ELSE aLog' = log \o fileClose

\* c.JSON with the envelope of an audio error, then return
AudioError(exit, up, d, resp, log, code, msg) ==
  AudioReturn(exit, up, d, JSON(resp, code, msg),
              log \o <<Ev("JSON", code, msg)>>)

\* lines 370-428: after the upstream has answered
AfterDo(up, d, log) ==
  \E closeReqOk \in BOOLEAN, closeInOk \in BOOLEAN, copyOk \in BOOLEAN,
     closeRespOk \in BOOLEAN, k \in 0..Len(up.body) :
    LET log1 == log \o <<Ev("req.Body.Close", 0, IF closeReqOk THEN "" ELSE "failed")>>
        log2 == log1 \o <<Ev("c.Request.Body.Close", 0, IF closeInOk THEN "" ELSE "failed")>>
        r3   == WriteBytes(WriteHeader(CopyHeaders(NoAudioResp, up.headers), up.status),
                           SubSeq(up.body, 1, k))
        log3 == log2 \o <<Ev("Header.Set", Cardinality(up.headers), ""),
                          Ev("WriteHeader", up.status, ""),
                          Ev("io.Copy", k, IF copyOk THEN "" ELSE "failed")>>
        log4 == log3 \o <<Ev("resp.Body.Close", 0, IF closeRespOk THEN "" ELSE "failed")>>
    IN  IF ~closeReqOk
        THEN /\ closeInOk /\ copyOk /\ closeRespOk /\ k = 0
             /\ AudioError("close_request_body", up, d, NoAudioResp, log1,
                           StatusInternalServerError, "close_request_body_failed")
        ELSE IF ~closeInOk
        THEN /\ copyOk /\ closeRespOk /\ k = 0
             /\ AudioError("close_inbound_body", up, d, NoAudioResp, log2,
                           StatusInternalServerError, "close_request_body_failed")
        ELSE IF ~copyOk
        THEN /\ closeRespOk
             /\ AudioError("copy", up, d, r3, log3,
                           StatusInternalServerError, "copy_response_body_failed")
        ELSE /\ k = Len(up.body)
             /\ IF ~closeRespOk
                THEN AudioError("close_response_body", up, d, r3, log4,
                                StatusInternalServerError, "close_response_body_failed")
                ELSE AudioReturn("ok", up, d, r3, log4)

\* lines 261-332: after the duration estimate, up to httpClient.Do
AfterEstimate(d) ==
  \E createOk \in BOOLEAN, newReqOk \in BOOLEAN, doOk \in BOOLEAN :
    IF ~createOk
    THEN /\ newReqOk /\ doOk
         /\ AudioError("create_form_file", NoUpstream, d, NoAudioResp, <<>>,
                       StatusInternalServerError, "create_form_file_failed")
    ELSE IF ~newReqOk
    THEN /\ doOk
         /\ AudioError("new_request", NoUpstream, d, NoAudioResp, <<>>,
                       StatusInternalServerError, "new_request_failed")
    ELSE IF ~doOk
    THEN AudioError("do_request", NoUpstream, d, NoAudioResp,
                    <<Ev("httpClient.Do", 0, "failed"),
                      Ev("SysLog", 0, "RelayAudio do_request_failed")>>,
                    StatusInternalServerError, "do_request_failed")
    ELSE \E status \in UpstreamStatuses, hdrs \in UpstreamHeaders, body \in Bodies :
           AfterDo([status |-> status, headers |-> hdrs, body |-> body], d,
                   <<Ev("httpClient.Do", status, "")>>)

\* RelayAudio, lines 208-429: one attempt
RelayAudio ==
  /\ aPhase = "request"
  /\ UNCHANGED <<chanStatus, relayVars, QuotaPerUnit, aIn, ledgerVars>>
  /\ IF ~aIn.bindOk
     THEN AudioError("bind", NoUpstream, NoDuration, NoAudioResp, <<>>,
                     StatusBadRequest, "bind_form_failed")
     ELSE \E openOk \in BOOLEAN, ioOk \in BOOLEAN :
            IF ~openOk
            THEN /\ ioOk
                 /\ AudioError("open", NoUpstream, NoDuration, NoAudioResp, <<>>,
                               StatusBadRequest, "Open file error")
            ELSE IF ReadFails(aIn.fileSize, ioOk)
            THEN AudioError("read", NoUpstream, NoDuration, NoAudioResp, <<>>,
                            StatusBadRequest, "Read file error")
            ELSE AfterEstimate(EstimateDuration(aIn.header, aIn.fileSize))

AudioNext ==
  \/ ClientAudioRequest
  \/ RelayAudio

\* the audio route
AudioSpec == Init /\ [][AudioNext]_vars

\* ------------------------------------------------------------ properties
\* the effects named op in a log, in order
RECURSIVE EventsOf(_, _)
EventsOf(log, ops) ==
  IF log = <<>> THEN <<>>
  ELSE (IF Head(log).op \in ops THEN <<Head(log)>> ELSE <<>>) \o EventsOf(Tail(log), ops)

Has(log, op) == \E i \in 1..Len(log) : log[i].op = op

MaxOf(a, b) == IF a > b THEN a ELSE b

\* the logical request has seen a failed attempt
SomeFailed == budgets # <<>>

\* C1, first part: over the failed attempts of one logical request the
\* budget of each attempt is the budget of the one before minus 1, the budget
\* a redirect carries is never below 0, and a failed attempt whose budget is
\* not positive ends in the terminal error response without a redirect
C1_Decrement ==
  /\ \A i \in 1..(Len(budgets) - 1) : budgets[i + 1] = budgets[i] - 1
  /\ rResp.kind = "redirect" =>
       /\ Atoi(rResp.retry) >= 0
       /\ Atoi(rResp.retry) = budgets[Len(budgets)] - 1
  /\ (SomeFailed /\ budgets[Len(budgets)] <= 0) =>
       /\ rPhase = "terminal"
       /\ rResp.kind = "json"
       /\ ~Has(rLog, "Redirect")
  /\ (SomeFailed /\ rPhase # "success" /\ budgets[Len(budgets)] > 0) =>
       rResp.kind = "redirect"

\* C1 as claimed: C1_Decrement, and the initial budget is the value of the
\* `retry` parameter when it is present and the process-wide default only
\* when the parameter is absent
C1_Original ==
  /\ C1_Decrement
  /\ SomeFailed =>
       budgets[1] = IF initQuery.present THEN Atoi(initQuery.val) ELSE RetryTimes

\* C1 as amended: C1_Decrement, and the initial budget is the integer value
\* of the `retry` parameter when it is present and not empty (0 when the
\* value is not an integer), and the process-wide default when the parameter
\* is absent or present with an empty value
C1_Budget ==
  /\ C1_Decrement
  /\ SomeFailed =>
       /\ (~initQuery.present \/ initQuery.val = <<>>) => budgets[1] = RetryTimes
       /\ (initQuery.present /\ initQuery.val # <<>>) =>
            budgets[1] = Atoi(initQuery.val)
       /\ \A n \in QueryNumbers :
            initQuery = PresentQuery(FormatInt(n)) => budgets[1] = n
       /\ initQuery \in {PresentQuery(<<"a">>), PresentQuery(<<"2", "x">>)} =>
            budgets[1] = 0

\* a request with `?retry=` (present, empty) has used the default budget 2 up
C1_Witness ==
  /\ rPhase = "terminal"
  /\ initQuery = PresentQuery(<<>>)
  /\ RetryTimes = 2
  /\ budgets = <<2, 1, 0>>

\* C2: when every attempt of a logical request with initial budget n >= 0
\* has failed, the client has seen exactly n redirects and then exactly one
\* error envelope; an attempt that redirects writes no envelope and no
\* attempt writes more than one
C2_RedirectsThenEnvelope ==
  /\ (rPhase = "terminal" /\ budgets[1] >= 0) =>
       /\ redirects = budgets[1]
       /\ envelopes = 1
       /\ rResp.kind = "json"
  /\ rPhase \in {"attempt", "redirected"} => envelopes = 0
  /\ Len(EventsOf(rLog, {"JSON"})) <= 1
  /\ Has(rLog, "Redirect") => ~Has(rLog, "JSON")

\* a budget of 2: two redirects, then the envelope
C2_Witness ==
  /\ rPhase = "terminal"
  /\ budgets[1] = 2
  /\ redirects = 2
  /\ envelopes = 1

\* the budget the first attempt of the logical request computes
InitialBudget == RetryBudget(initQuery, RetryTimes)

\* C3 as claimed, the bound: a logical request takes at most
\* (initial budget + 1) attempts, for every initial `retry` value
C3_Original == attempts <= InitialBudget + 1

\* C3 as amended: a logical request takes at most max(initial budget, 0) + 1
\* attempts, and with the client following every redirect it reaches Success
\* or Terminal
C3_Terminates ==
  /\ [](attempts <= MaxOf(InitialBudget, 0) + 1)
  /\ (rPhase \in {"attempt", "redirected"}) ~> (rPhase \in {"success", "terminal"})

\* a request with retry=-1 has ended after its one attempt
C3_Witness ==
  /\ rPhase = "terminal"
  /\ initQuery = PresentQuery(<<"-", "1">>)
  /\ attempts = 1

\* C4: an attempt calls disableChannel, for the channel of its request
\* context, exactly when it failed and its error matches the disable policy;
\* the call leaves the channel disabled and the other channels alone, and on
\* a channel that was already disabled it leaves the store as it was
C4_DisableIffPolicy ==
  attempts >= 1 =>
    /\ Has(rLog, "disableChannel") <=>
         (lastErr # NoErr /\ shouldDisableChannel(lastErr))
    /\ \A i \in 1..Len(rLog) :
         rLog[i].op = "disableChannel" => rLog[i].n = channel_id
    /\ Has(rLog, "disableChannel") =>
         /\ chanStatus[channel_id] = "disabled"
         /\ \A ch \in Channels \ {channel_id} : chanStatus[ch] = chanBefore[ch]
         /\ chanBefore[channel_id] = "disabled" => chanStatus = chanBefore
    /\ ~Has(rLog, "disableChannel") => chanStatus = chanBefore

\* disableChannel has been called for a channel that was already disabled
C4_Witness ==
  /\ Has(rLog, "disableChannel")
  /\ chanBefore[channel_id] = "disabled"
  /\ rPhase = "redirected"

\* the returns taken before an upstream response exists
NoResponseExits == {"bind", "open", "read", "create_form_file", "new_request",
                    "do_request"}

\* C5: an audio attempt performs usage accounting (debit, cache refresh,
\* consumption log, used-quota increments) only when the upstream call
\* returned a successful status, never on a bind, open, read,
\* request-construction or send failure
C5_AccountingOnlyOnSuccess ==
  (aPhase = "done" /\ EventsOf(aLog, AccountingOps) # <<>>) =>
    /\ aStatus \in 200..299
    /\ aExit \notin NoResponseExits
    /\ Has(aLog, "httpClient.Do")

\* an attempt answered 200 upstream has been billed
C5_Witness ==
  /\ aPhase = "done"
  /\ aStatus = StatusOK
  /\ aExit = "ok"
  /\ Has(aLog, "RecordConsumeLog")

\* C6: once the upstream has answered 200, the quota debit is issued exactly
\* once on every exit path of the attempt, delivered body or not
C6_DebitOncePerExit ==
  (aPhase = "done" /\ aStatus = StatusOK) =>
    Len(EventsOf(aLog, {"PostConsumeTokenQuota"})) = 1

\* the copy failed midway, the client got the 500 envelope after one byte of
\* the body, and the debit was issued
C6_Witness ==
  /\ aPhase = "done"
  /\ aStatus = StatusOK
  /\ aExit = "copy"
  /\ Len(aResp.bytes) = 1
  /\ Len(aResp.envelopes) = 1
  /\ Len(EventsOf(aLog, {"PostConsumeTokenQuota"})) = 1

\* C7: in every audio attempt that obtained an upstream response, the
\* outbound request body and the upstream response body have both been
\* closed when the attempt returns
C7_BodiesClosed ==
  (aPhase = "done" /\ aStatus # 0) =>
    /\ Has(aLog, "req.Body.Close")
    /\ Has(aLog, "resp.Body.Close")

\* the positions of the effects named op in a log
Positions(log, op) == {i \in 1..Len(log) : log[i].op = op}

\* C8: once the upstream status and headers have been committed to the
\* client, the attempt writes no error envelope
C8_NoEnvelopeAfterCommit ==
  aPhase = "done" =>
    \A i \in Positions(aLog, "WriteHeader"), j \in Positions(aLog, "JSON") : j < i

\* C9: a failed read of the 44-byte header does not end the attempt: the
\* duration falls back to fileSize/16000 and the request goes upstream
C9_ReadFailureFallsBack ==
  (aPhase = "done" /\ aExit \notin {"bind", "open"}) =>
    /\ aExit # "read"
    /\ aIn.fileSize < WAVHeaderSize =>
         aDuration = FloatDiv(aIn.fileSize, DefaultByteRate)

\* C10: every payload that reaches the estimator gets a finite, non-negative
\* duration, and the quota computed from it is a non-negative integer
C10_DurationFinite ==
  (aPhase = "done" /\ aDuration.kind # "none") =>
    /\ aDuration.kind = "fin"
    /\ \A i \in Positions(aLog, "PostConsumeTokenQuota") : aLog[i].n >= 0

\* C11: an attempt whose upstream answers with a non-2xx status is treated
\* as a failure and routed through the retry orchestrator; the upstream
\* response is not relayed to the client as an ordinary response.  For the
\* audio route: such an attempt never commits the upstream status
C11_NonSuccessNotRelayed ==
  (aPhase = "done" /\ aStatus # 0 /\ aStatus \notin 200..299) =>
    /\ ~Has(aLog, "WriteHeader")
    /\ aResp.bytes = <<>>

\* the first value of every header of a response
FirstValues(hdrs) == {[key |-> h.key, val |-> h.vals[1]] : h \in hdrs}

\* C12: on the response path of RelayAudio the upstream status and the first
\* value of every upstream header are written before the first body byte,
\* the client receives the body bytes in upstream order, and when the copy
\* completes without failure the client body is the upstream body
C12_TransparentPipe ==
  (aPhase = "done" /\ Has(aLog, "io.Copy")) =>
    /\ \A i \in Positions(aLog, "io.Copy"), j \in Positions(aLog, "WriteHeader") : j < i
    /\ \A i \in Positions(aLog, "io.Copy"), j \in Positions(aLog, "Header.Set") : j < i
    /\ aResp.bytes = SubSeq(aBody, 1, Len(aResp.bytes))
    /\ aResp.bytes # <<>> =>
         /\ aResp.status = aStatus
         /\ aResp.headers = FirstValues(aHeaders)
    /\ (\E i \in Positions(aLog, "io.Copy") : aLog[i].s = "") =>
         /\ aResp.status = aStatus
         /\ aResp.headers = FirstValues(aHeaders)
         /\ aResp.bytes = aBody
         /\ aResp.envelopes = <<>>

\* the accounting calls an attempt has issued, in order
Issued == EventsOf(aLog, AccountingOps)

OpsOf(evs) == [i \in 1..Len(evs) |-> evs[i].op]

\* C13: when the accounting runs its calls come in this order: the token
\* debit, the refresh of the cached user quota, and then, only if the quota
\* is not zero, the consumption log, the user's used quota and the
\* channel's used quota; with a quota of 0 the first two are still issued
C13_AccountingOrder ==
  (aPhase = "done" /\ Issued # <<>>) =>
    LET quota == Issued[1].n
    IN  /\ Issued[1].op = "PostConsumeTokenQuota"
        /\ IF quota = 0
           THEN OpsOf(Issued) = <<"PostConsumeTokenQuota", "CacheUpdateUserQuota">>
           ELSE /\ OpsOf(Issued) = <<"PostConsumeTokenQuota", "CacheUpdateUserQuota",
                                     "RecordConsumeLog",
                                     "UpdateUserUsedQuotaAndRequestCount",
                                     "UpdateChannelUsedQuota">>
                /\ \A i \in 3..5 : Issued[i].n = quota

\* an attempt billed with quota 0: debit and refresh only
C13_Witness ==
  /\ aPhase = "done"
  /\ aStatus = StatusOK
  /\ OpsOf(Issued) = <<"PostConsumeTokenQuota", "CacheUpdateUserQuota">>
  /\ Issued[1].n = 0

\* C14: a failed accounting call does not keep any later call from being
\* issued, changes nothing of what the client has been sent, and produces
\* no client-visible error
C14_AccountingFailuresContained ==
  (aPhase = "done" /\ Issued # <<>>) =>
    LET first == CHOOSE i \in Positions(aLog, "PostConsumeTokenQuota") : TRUE
    IN  /\ (\E i \in 1..Len(Issued) : Issued[i].s = "failed") =>
             /\ Has(aLog, "CacheUpdateUserQuota")
             /\ Issued[1].n # 0 =>
                  /\ Has(aLog, "RecordConsumeLog")
                  /\ Has(aLog, "UpdateUserUsedQuotaAndRequestCount")
                  /\ Has(aLog, "UpdateChannelUsedQuota")
        /\ \A i \in first..Len(aLog) :
             aLog[i].op \notin {"JSON", "WriteHeader", "Header.Set", "io.Copy"}
        /\ Len(aResp.envelopes) = Len(EventsOf(aLog, {"JSON"}))
        /\ aExit = "ok" =>
             /\ aResp.envelopes = <<>>
             /\ aResp.status = aStatus
             /\ aResp.bytes = aBody
             /\ aResp.headers = FirstValues(aHeaders)

\* the debit failed, the rest of the accounting was issued and the client
\* got the plain upstream response
C14_Witness ==
  /\ aPhase = "done"
  /\ aExit = "ok"
  /\ \E i \in 1..Len(Issued) :
       Issued[i].op = "PostConsumeTokenQuota" /\ Issued[i].s = "failed"
  /\ Has(aLog, "UpdateChannelUsedQuota")
  /\ aResp.envelopes = <<>>
  /\ aResp.bytes = <<7, 8>>

\* x is the float64 of a/b: finite and within 2^-53 of a/b, relatively
IsQuotient(x, a, b) ==
  /\ x.kind = "fin"
  /\ LET k == IF x.e < 0 THEN 0 - x.e ELSE 0
         L == Shl(Norm(MulSmall(x.m, b, 0)), x.e + k + SignificandBits)
         R == Shl(NatOf(a), k)
         RS == Shl(R, SignificandBits)
     IN  ~Less(Add(RS, R, 0), L) /\ ~Less(Add(L, R, 0), RS)

\* C15: the estimated duration is dataSize/byteRate for a header with both
\* magic fields right and byteRate > 0, and fileSize/16000 for a header
\* with either magic field wrong, whatever the other header fields hold
C15_DurationEstimate ==
  (aPhase = "done" /\ aDuration.kind # "none") =>
    LET h == aIn.header
    IN  /\ (h.RIFF = "RIFF" /\ h.WAVE = "WAVE" /\ h.ByteRate > 0) =>
             IsQuotient(aDuration, h.DataSize, h.ByteRate)
        /\ (h.RIFF # "RIFF" \/ h.WAVE # "WAVE") =>
             IsQuotient(aDuration, aIn.fileSize, DefaultByteRate)

\* one magic field wrong: 32000 bytes of file give 2 seconds, although the
\* header describes 160000 bytes at 48000 bytes per second
C15_Witness ==
  /\ aPhase = "done"
  /\ aIn.header.RIFF = "RIFF"
  /\ aIn.header.WAVE # "WAVE"
  /\ aIn.header.DataSize = 160000
  /\ aIn.header.ByteRate = 48000
  /\ aIn.fileSize = 32000
  /\ aDuration = Float64(2)

\* n = floor(x * qpu * 0.006 / 60), that is n <= x * qpu / 10000 < n + 1
IsFloorOfRate(n, x, qpu) ==
  LET k == IF x.e < 0 THEN 0 - x.e ELSE 0
      v == Shl(Norm(MulSmall(x.m, qpu, 0)), x.e + k)
      lo == Shl(NatOf(n * 10000), k)
      hi == Shl(NatOf((n + 1) * 10000), k)
  IN  n >= 0 /\ ~Less(v, lo) /\ Less(v, hi)

\* C16: the quota debited for a successful attempt with a finite duration
\* is floor(duration * quotaPerUnit * 0.006 / 60); a well-formed header
\* with dataSize 160000 and byteRate 16000 has duration 10
C16_QuotaIsFloor ==
  (aPhase = "done" /\ Issued # <<>> /\ aDuration.kind = "fin") =>
    /\ IsFloorOfRate(Issued[1].n, aDuration, QuotaPerUnit)
    /\ ( /\ aIn.header.RIFF = "RIFF" /\ aIn.header.WAVE = "WAVE"
         /\ aIn.header.DataSize = 160000 /\ aIn.header.ByteRate = 16000 ) =>
           aDuration = Float64(10)

\* ------------------------------------- concurrent audio accounting
\* the uploads of the workers: well-formed headers
LedgerUploads ==
  {[bindOk |-> TRUE, fileSize |-> 32000,
    header |-> [RIFF |-> "RIFF", WAVE |-> "WAVE", DataSize |-> n, ByteRate |-> DefaultByteRate]] :
      n \in {0, 160000, 1440000}}

\* one accounting call, applied to the stores atomically
LedgerApply(l, call) ==
  CASE call.op = "PostConsumeTokenQuota" ->
         [l EXCEPT !.tokenDebit = @ + call.n]
    [] call.op = "CacheUpdateUserQuota" ->
         [l EXCEPT !.cacheRefreshes = @ + 1]
    [] call.op = "RecordConsumeLog" ->
         [l EXCEPT !.logged = @ + call.n]
    [] call.op = "UpdateUserUsedQuotaAndRequestCount" ->
         [l EXCEPT !.userUsed = @ + call.n, !.requestCount = @ + 1]
    [] call.op = "UpdateChannelUsedQuota" ->
         [l EXCEPT !.chanUsed = @ + call.n]

\* a worker runs RelayAudio up to its return with an upstream status of
\* 200: the deferred accounting of lines 334-368 is what is left to do
AudioWorkerReturn ==
  \E w \in Workers, u \in LedgerUploads, q \in QuotaPerUnitValues :
    LET quota == Quota(EstimateDuration(u.header, u.fileSize), q, 0)
    IN  /\ wPc[w] = "idle"
        /\ AccountingRuns(StatusOK)
        /\ wQuota' = [wQuota EXCEPT ![w] = quota]
        /\ wCalls' = [wCalls EXCEPT ![w] = Accounting(quota, {})]
        /\ wPc' = [wPc EXCEPT ![w] = "billing"]
        /\ UNCHANGED <<ledger, chanStatus, relayVars, audioVars>>

\* a worker issues its next accounting call
LedgerCall ==
  \E w \in Workers :
    /\ wPc[w] = "billing"
    /\ ledger' = LedgerApply(ledger, Head(wCalls[w]))
    /\ wCalls' = [wCalls EXCEPT ![w] = Tail(@)]
    /\ wPc' = [wPc EXCEPT ![w] = IF Tail(wCalls[w]) = <<>> THEN "done" ELSE "billing"]
    /\ UNCHANGED <<wQuota, chanStatus, relayVars, audioVars>>

LedgerNext ==
  \/ AudioWorkerReturn
  \/ LedgerCall

\* audio workers billing the same token, user and channel
LedgerSpec == Init /\ [][LedgerNext]_vars

\* the rules of the classification, first to last, and the mode of each
RuleMatches(i, p) ==
  CASE i = 1 -> HasPrefix(p, PathChatCompletions)
    [] i = 2 -> HasPrefix(p, PathCompletions)
    [] i = 3 -> HasPrefix(p, PathEmbeddings) \/ HasSuffix(p, SuffixEmbeddings)
    [] i = 4 -> HasPrefix(p, PathModerations)
    [] i = 5 -> HasPrefix(p, PathImagesGenerations)
    [] i = 6 -> HasPrefix(p, PathEdits)

RuleMode == <<RelayModeChatCompletions, RelayModeCompletions, RelayModeEmbeddings,
              RelayModeModerations, RelayModeImagesGenerations, RelayModeEdits>>

\* C17: every path gets the mode of the first rule it matches, in the
\* order chat completions, completions, embeddings (prefix or suffix),
\* moderations, image generations, edits, and Unknown if it matches none;
\* image generations go to the image helper, every other mode to the text
\* helper
C17_ClassifyAndDispatch ==
  attempts > 0 =>
    /\ \A i \in 1..Len(RuleMode) :
         (RuleMatches(i, path) /\ \A j \in 1..(i - 1) : ~RuleMatches(j, path)) =>
           relayMode = RuleMode[i]
    /\ (\A i \in 1..Len(RuleMode) : ~RuleMatches(i, path)) =>
         relayMode = RelayModeUnknown
    /\ helper = IF relayMode = RelayModeImagesGenerations
                THEN "relayImageHelper" ELSE "relayTextHelper"

\* a path under the image prefix that ends in embeddings is served by the
\* text helper
C17_Witness ==
  /\ attempts > 0
  /\ path = PathImagesEmbeddings
  /\ relayMode = RelayModeEmbeddings
  /\ helper = "relayTextHelper"

\* C18: the terminal envelope has the status, type, param and code of the
\* error the helper returned; its message is the load-saturated message
\* exactly when that status is 429, and the error's own message otherwise
C18_TerminalEnvelope ==
  rPhase = "terminal" =>
    /\ rResp.kind = "json"
    /\ rResp.status = helperErr.StatusCode
    /\ rResp.error.StatusCode = helperErr.StatusCode
    /\ rResp.error.Type = helperErr.Type
    /\ rResp.error.Param = helperErr.Param
    /\ rResp.error.Code = helperErr.Code
    /\ helperErr.Message # SaturatedMessage
    /\ rResp.error.Message = IF helperErr.StatusCode = StatusTooManyRequests
                             THEN SaturatedMessage
                             ELSE helperErr.Message

\* a 429 given up on: the message is replaced, the type is kept
C18_Witness ==
  /\ rPhase = "terminal"
  /\ helperErr.StatusCode = StatusTooManyRequests
  /\ helperErr.Type = "insufficient_quota"
  /\ rResp.error.Type = "insufficient_quota"
  /\ rResp.error.Message = SaturatedMessage

\* C19: every failed attempt, redirected or terminal, emits the diagnostic
\* naming its channel and evaluates the disable policy, so a redirected
\* attempt can disable its channel; a successful attempt emits nothing,
\* disables nothing and writes neither a redirect nor an envelope
C19_DiagnosticEveryFailure ==
  /\ rPhase \in {"redirected", "terminal"} =>
       /\ \E i \in Positions(rLog, "SysError") : rLog[i].n = channel_id
       /\ shouldDisableChannel(helperErr) =>
            /\ \E i \in Positions(rLog, "disableChannel") : rLog[i].n = channel_id
            /\ chanStatus[channel_id] = "disabled"
       /\ ~shouldDisableChannel(helperErr) => chanStatus = chanBefore
  /\ rPhase = "success" =>
       /\ rLog = <<>>
       /\ rResp.kind = "ok"
       /\ helperErr = NoErr
       /\ chanStatus = chanBefore

\* an attempt answered with a redirect has disabled its channel
C19_Witness ==
  /\ rPhase = "redirected"
  /\ rResp.kind = "redirect"
  /\ Has(rLog, "SysError")
  /\ chanBefore[channel_id] = "enabled"
  /\ chanStatus[channel_id] = "disabled"

RECURSIVE SumQuota(_)
SumQuota(ws) ==
  IF ws = {} THEN 0
  ELSE LET w == CHOOSE x \in ws : TRUE IN wQuota[w] + SumQuota(ws \ {w})

\* C20: when every concurrent audio worker has finished, whatever the
\* interleaving of their accounting calls, the token's total debit is the
\* sum of the workers' quotas, and so are the totals added to the user's
\* and to the channel's used quota
C20_LedgerTotals ==
  (\A w \in Workers : wPc[w] = "done") =>
    /\ ledger.tokenDebit = SumQuota(Workers)
    /\ ledger.userUsed = SumQuota(Workers)
    /\ ledger.chanUsed = SumQuota(Workers)
    /\ ledger.logged = SumQuota(Workers)

\* all workers done, two of them with different quotas that are not zero
C20_Witness ==
  /\ \A w \in Workers : wPc[w] = "done"
  /\ \E v, w \in Workers : wQuota[v] > 0 /\ wQuota[w] > wQuota[v]
  /\ ledger.chanUsed > 0
  /\ ledger.tokenDebit = ledger.chanUsed

====
